---------------------------- MODULE Spec2Model ----------------------------
(***************************************************************************)
(* Model of backend/utils/formulaEvaluator.js: validateFormula,            *)
(* evaluateFormula and evaluatePartDimensions.                             *)
(*                                                                         *)
(* A formula string is a sequence of one-character strings.  The regular   *)
(* expression replacements of validateFormula are modelled character by    *)
(* character.  `new Function(...paramNames, "return " + formula + ";")` is *)
(* modelled by a scannerless parser for the part of the JavaScript         *)
(* expression grammar that text accepted by validateFormula can use, and   *)
(* calling the function by an evaluator over the resulting tree.           *)
(*                                                                         *)
(* Numbers are exact rationals in sign-magnitude form (so that -0 exists), *)
(* plus +/-Infinity and NaN.  The rounding and the overflow of IEEE        *)
(* doubles are not modelled.  The only white space in the modelled         *)
(* formulas is the space character (single-line formulas), so automatic    *)
(* semicolon insertion does not arise.  Identifiers that are not           *)
(* parameters of the constructed function are taken to be unresolvable     *)
(* (no global of that name exists).                                        *)
(***************************************************************************)
EXTENDS Integers, Sequences, FiniteSets, TLC

VARIABLES
    caller,        \* "evaluateFormula" | "evaluatePartDimensions": the entry point called;
                   \* "repeated calls": evaluateFormula called several times on one binding
    formula,       \* argument `formula` of the current evaluateFormula call
    variables,     \* argument `variables`: sequence of [name, value], in key order
    pc,            \* position inside evaluateFormula
    valid,         \* what validateFormula returned ("none" before it ran)
    evalFunction,  \* the function built by new Function (its body's syntax tree)
    result,        \* what evalFunction(...paramValues) returned
    divByZero,     \* observation: some division executed had a divisor equal to 0
    error,         \* the Error thrown by evaluateFormula
    part,          \* argument `part` of evaluatePartDimensions
    dimensions,    \* local `dimensions` of evaluatePartDimensions
    axis,          \* position inside evaluatePartDimensions
    given,         \* observation: the arguments as they were when the current call began
    history        \* observation: the earlier calls of this caller, with how each ended

vars == <<caller, formula, variables, pc, valid, evalFunction, result,
          divByZero, error, part, dimensions, axis, given, history>>

-----------------------------------------------------------------------------
(* Characters *)

UpperLetters == {"A","B","C","D","E","F","G","H","I","J","K","L","M",
                 "N","O","P","Q","R","S","T","U","V","W","X","Y","Z"}
LowerLetters == {"a","b","c","d","e","f","g","h","i","j","k","l","m",
                 "n","o","p","q","r","s","t","u","v","w","x","y","z"}
Letters == UpperLetters \cup LowerLetters
Digits == {"0","1","2","3","4","5","6","7","8","9"}
OctalDigits == {"0","1","2","3","4","5","6","7"}
\* /\s/ restricted to the white space the modelled formulas contain
Whitespace == {" "}
IdentStart == Letters \cup {"_", "$"}
IdentPart == IdentStart \cup Digits

DigitVal(c) ==
    CASE c = "0" -> 0 [] c = "1" -> 1 [] c = "2" -> 2 [] c = "3" -> 3
      [] c = "4" -> 4 [] c = "5" -> 5 [] c = "6" -> 6 [] c = "7" -> 7
      [] c = "8" -> 8 [] c = "9" -> 9

\* s[i..] starts with t
StartsWithAt(s, i, t) ==
    /\ i + Len(t) - 1 <= Len(s)
    /\ \A j \in 1..Len(t) : s[i + j - 1] = t[j]

-----------------------------------------------------------------------------
(* JavaScript values.  k: "fin" (finite number s*n/d), "inf" (s*Infinity), *)
(* "nan", "undefined", "object" (a RegExp), "string", "function"           *)

Fin(s, n, d) == [k |-> "fin", s |-> s, n |-> n, d |-> d, f |-> ""]
PlusZero == Fin(1, 0, 1)
MinusZero == Fin(-1, 0, 1)
InfV(s) == [k |-> "inf", s |-> s, n |-> 0, d |-> 1, f |-> ""]
NaNV == [k |-> "nan", s |-> 1, n |-> 0, d |-> 1, f |-> ""]
Undefined == [k |-> "undefined", s |-> 1, n |-> 0, d |-> 1, f |-> ""]
RegExpObject == [k |-> "object", s |-> 1, n |-> 0, d |-> 1, f |-> ""]
\* every string the modelled formulas can build contains the source of a
\* RegExp ("/.../"), so its content is not kept: it converts to NaN
StringV == [k |-> "string", s |-> 1, n |-> 0, d |-> 1, f |-> ""]
MathFunction(name) == [k |-> "function", s |-> 1, n |-> 0, d |-> 1, f |-> name]
IntV(i) == IF i < 0 THEN Fin(-1, -i, 1) ELSE Fin(1, i, 1)

RECURSIVE Gcd(_, _)
Gcd(a, b) == IF b = 0 THEN a ELSE Gcd(b, a % b)

\* the finite number s*n/d in lowest terms
Rat(s, n, d) == LET g == Gcd(n, d) IN Fin(s, n \div g, d \div g)

IsNumber(v) == v.k \in {"fin", "inf", "nan"}
IsZero(v) == v.k = "fin" /\ v.n = 0

\* ToNumber
ToNumber(v) == IF IsNumber(v) THEN v ELSE NaNV

Negate(v) == IF v.k = "nan" THEN v ELSE [v EXCEPT !.s = -v.s]

\* a + b on numbers
NumAdd(a, b) ==
    IF a.k = "nan" \/ b.k = "nan" THEN NaNV
    ELSE IF a.k = "inf" /\ b.k = "inf" THEN (IF a.s = b.s THEN a ELSE NaNV)
    ELSE IF a.k = "inf" THEN a
    ELSE IF b.k = "inf" THEN b
    ELSE IF a.n = 0 /\ b.n = 0 THEN (IF a.s = -1 /\ b.s = -1 THEN MinusZero ELSE PlusZero)
    ELSE LET x == a.s * a.n * b.d + b.s * b.n * a.d
             y == a.d * b.d
         IN  IF x = 0 THEN PlusZero
             ELSE IF x < 0 THEN Rat(-1, -x, y) ELSE Rat(1, x, y)

NumSub(a, b) == NumAdd(a, Negate(b))

NumMul(a, b) ==
    IF a.k = "nan" \/ b.k = "nan" THEN NaNV
    ELSE IF (a.k = "inf" /\ IsZero(b)) \/ (b.k = "inf" /\ IsZero(a)) THEN NaNV
    ELSE IF a.k = "inf" \/ b.k = "inf" THEN InfV(a.s * b.s)
    ELSE Rat(a.s * b.s, a.n * b.n, a.d * b.d)

NumDiv(a, b) ==
    IF a.k = "nan" \/ b.k = "nan" THEN NaNV
    ELSE IF a.k = "inf" /\ b.k = "inf" THEN NaNV
    ELSE IF a.k = "inf" THEN InfV(a.s * b.s)
    ELSE IF b.k = "inf" THEN Fin(a.s * b.s, 0, 1)
    ELSE IF b.n = 0 THEN (IF a.n = 0 THEN NaNV ELSE InfV(a.s * b.s))
    ELSE Rat(a.s * b.s, a.n * b.d, a.d * b.n)

IsInteger(v) == v.k = "fin" /\ v.d = 1
IsOddInteger(v) == IsInteger(v) /\ v.n % 2 = 1

RECURSIVE IntPow(_, _)
IntPow(b, e) == IF e = 0 THEN 1 ELSE b * IntPow(b, e - 1)

\* a ** b (Number::exponentiate).  A non-integer exponent of a positive finite
\* base other than 1 has no rational value in general: that case is outside
\* the model and no modelled input reaches it.
NumPow(a, b) ==
    IF b.k = "nan" THEN NaNV
    ELSE IF IsZero(b) THEN IntV(1)
    ELSE IF a.k = "nan" THEN NaNV
    ELSE IF a.k = "inf" THEN
        (IF b.s = 1 THEN (IF a.s = -1 /\ IsOddInteger(b) THEN InfV(-1) ELSE InfV(1))
         ELSE (IF a.s = -1 /\ IsOddInteger(b) THEN MinusZero ELSE PlusZero))
    ELSE IF IsZero(a) THEN
        (IF b.s = 1 THEN (IF a.s = -1 /\ IsOddInteger(b) THEN MinusZero ELSE PlusZero)
         ELSE (IF a.s = -1 /\ IsOddInteger(b) THEN InfV(-1) ELSE InfV(1)))
    ELSE IF b.k = "inf" THEN
        (IF a.n = a.d THEN NaNV
         ELSE IF (a.n > a.d) = (b.s = 1) THEN InfV(1) ELSE PlusZero)
    ELSE IF IsInteger(b) THEN
        LET sg == IF a.s = -1 /\ IsOddInteger(b) THEN -1 ELSE 1
        IN  IF b.s = 1 THEN Rat(sg, IntPow(a.n, b.n), IntPow(a.d, b.n))
            ELSE Rat(sg, IntPow(a.d, b.n), IntPow(a.n, b.n))
    ELSE IF a.s = -1 THEN NaNV
    ELSE CASE a.n = a.d -> IntV(1)

\* Math.floor
MathFloor(v) ==
    IF v.k # "fin" \/ v.d = 1 THEN v
    ELSE IF v.s = 1 THEN Fin(1, v.n \div v.d, 1)
    ELSE Fin(-1, (v.n \div v.d) + 1, 1)

\* Math.ceil
MathCeil(v) == Negate(MathFloor(Negate(v)))

\* Math.round: to the nearest integer, ties towards +Infinity; the result is
\* -0 for -0 and for -0.5 <= x < 0
MathRound(v) ==
    IF v.k # "fin" \/ v.d = 1 THEN v
    ELSE IF v.s = 1 THEN Fin(1, (2 * v.n + v.d) \div (2 * v.d), 1)
    ELSE Fin(-1, (2 * v.n + v.d - 1) \div (2 * v.d), 1)

-----------------------------------------------------------------------------
(* Formula arguments.  t: "string" (text s), "null", "undefined",          *)
(* "number" (value n), "object"                                            *)

StringF(s) == [t |-> "string", s |-> s, n |-> 0]
NullF == [t |-> "null", s |-> <<>>, n |-> 0]
UndefinedF == [t |-> "undefined", s |-> <<>>, n |-> 0]
NumberF(n) == [t |-> "number", s |-> <<>>, n |-> n]
ObjectF == [t |-> "object", s |-> <<>>, n |-> 0]

\* ToBoolean of a formula argument: `!formula` is its negation
Truthy(f) ==
    CASE f.t = "string" -> Len(f.s) > 0
      [] f.t = "number" -> f.n # 0
      [] f.t = "object" -> TRUE
      [] OTHER -> FALSE

\* Object.keys(variables)
Keys(v) == [i \in 1..Len(v) |-> v[i].name]

-----------------------------------------------------------------------------
(* validateFormula *)

ALLOWED_OPERATORS == {"+", "-", "*", "/", "(", ")", "."}
ALLOWED_FUNCTIONS ==
    << <<"m","i","n">>, <<"m","a","x">>, <<"r","o","u","n","d">>,
       <<"f","l","o","o","r">>, <<"c","e","i","l">> >>

\* formula.replace(/\s+/g, '')
RemoveWhitespace(s) == SelectSeq(s, LAMBDA c : c \notin Whitespace)

\* the first alternative of (a1|a2|...) that matches at s[i..], 0 if none:
\* a regular expression tries its alternatives in the order written
FirstAlternative(s, i, alts) ==
    LET m == {a \in 1..Len(alts) : StartsWithAt(s, i, alts[a])}
    IN  IF m = {} THEN 0 ELSE CHOOSE a \in m : \A b \in m : a <= b

\* s.replace(new RegExp(`(${alts.join('|')})${suffix}`, 'g'), placeholder + suffix),
\* from position i on: matches are found left to right and do not overlap
RECURSIVE ReplaceAlternatives(_, _, _, _, _)
ReplaceAlternatives(s, i, alts, suffix, placeholder) ==
    IF i > Len(s) THEN <<>>
    ELSE LET full == [a \in 1..Len(alts) |-> alts[a] \o suffix]
             m == FirstAlternative(s, i, full)
         IN  IF m # 0 /\ Len(full[m]) > 0
             THEN <<placeholder>> \o suffix
                    \o ReplaceAlternatives(s, i + Len(full[m]), alts, suffix, placeholder)
             ELSE <<s[i]>> \o ReplaceAlternatives(s, i + 1, alts, suffix, placeholder)

\* the end (exclusive) of the run of digits that starts at s[i]
RECURSIVE DigitsEnd(_, _)
DigitsEnd(s, i) ==
    IF i <= Len(s) /\ s[i] \in Digits THEN DigitsEnd(s, i + 1) ELSE i

\* s.replace(/\d+(\.\d+)?/g, 'N'), from position i on
RECURSIVE ReplaceNumbers(_, _)
ReplaceNumbers(s, i) ==
    IF i > Len(s) THEN <<>>
    ELSE IF s[i] \in Digits THEN
        LET e == DigitsEnd(s, i)
            e2 == IF e + 1 <= Len(s) /\ s[e] = "." /\ s[e + 1] \in Digits
                  THEN DigitsEnd(s, e + 1) ELSE e
        IN  <<"N">> \o ReplaceNumbers(s, e2)
    ELSE <<s[i]>> \o ReplaceNumbers(s, i + 1)

\* lines 34-37 and 46: with no variable the pattern is /^$/, which matches
\* the empty string only
ReplaceVariables(cleanFormula, variableNames) ==
    IF Len(variableNames) > 0
    THEN ReplaceAlternatives(cleanFormula, 1, variableNames, <<>>, "V")
    ELSE IF cleanFormula = <<>> THEN <<"V">> ELSE cleanFormula

\* lines 40-42 and 47
ReplaceFunctions(s) == ReplaceAlternatives(s, 1, ALLOWED_FUNCTIONS, <<"(">>, "F")

\* lines 45-50: cleanFormula with variables, functions and numbers replaced
TestFormula(cleanFormula, variableNames) ==
    ReplaceNumbers(ReplaceFunctions(ReplaceVariables(cleanFormula, variableNames)), 1)

\* the character check with the separators ";" and "," let through
AllowedCharOrSeparator(char) ==
    char = "V" \/ char = "N" \/ char = "F" \/ char \in ALLOWED_OPERATORS \cup {";", ","}

\* lines 54-59: the character check
AllowedChar(char) ==
    char = "V" \/ char = "N" \/ char = "F" \/ char \in ALLOWED_OPERATORS

\* the empty-formula check left out
EmptyFormulaNotChecked(cleanFormula) == FALSE

\* lines 29-31: the empty-formula check
IsEmptyFormula(cleanFormula) == Len(cleanFormula) = 0

\* lines 21-23: the argument check
IsFormulaString(f) == Truthy(f) /\ f.t = "string"

validateFormula(f, v) ==
    IF ~IsFormulaString(f) THEN FALSE
    ELSE LET cleanFormula == RemoveWhitespace(f.s)
         IN  IF IsEmptyFormula(cleanFormula) THEN FALSE
             ELSE LET testFormula == TestFormula(cleanFormula, Keys(v))
                  IN  \A i \in 1..Len(testFormula) : AllowedChar(testFormula[i])

-----------------------------------------------------------------------------
(* new Function(...paramNames, `return ${formula};`): the parse of the     *)
(* function body.  The body is "return ", the text, ";" and a line break;  *)
(* the parser below works on the text.  Its tokens are the ones text       *)
(* accepted by validateFormula can hold: identifiers, numeric literals,    *)
(* regular expression literals, comments and + - * / ( ) . ++ -- ** ...    *)
(* Anything else is reported as a syntax error; no such text reaches the   *)
(* parser, because evaluateFormula validates first.                        *)

NoTree == [t |-> "none"]
Failed == [ok |-> FALSE, p |-> 0, ast |-> NoTree]
Parsed(p, ast) == [ok |-> TRUE, p |-> p, ast |-> ast]

At(src, p, c) == p >= 1 /\ p <= Len(src) /\ src[p] = c
AtSet(src, p, S) == p >= 1 /\ p <= Len(src) /\ src[p] \in S

\* the position after the "*/" that closes a block comment, 0 if there is none
RECURSIVE CommentEnd(_, _)
CommentEnd(src, p) ==
    IF p + 1 > Len(src) THEN 0
    ELSE IF src[p] = "*" /\ src[p + 1] = "/" THEN p + 2
    ELSE CommentEnd(src, p + 1)

\* the position of the next token at or after p (Len(src) + 1 at the end of
\* the text), 0 for an unterminated block comment.  A line comment runs to
\* the end of the text, which is the end of its line.
RECURSIVE SkipTrivia(_, _)
SkipTrivia(src, p) ==
    IF p = 0 \/ p > Len(src) THEN p
    ELSE IF src[p] \in Whitespace THEN SkipTrivia(src, p + 1)
    ELSE IF StartsWithAt(src, p, <<"/", "/">>) THEN Len(src) + 1
    ELSE IF StartsWithAt(src, p, <<"/", "*">>)
         THEN SkipTrivia(src, CommentEnd(src, p + 2))
    ELSE p

\* the end (exclusive) of the run of identifier characters that starts at p
RECURSIVE IdentEnd(_, _)
IdentEnd(src, p) ==
    IF AtSet(src, p, IdentPart) THEN IdentEnd(src, p + 1) ELSE p

\* the value of the digits src[p..e-1] in the given base
RECURSIVE DigitsValue(_, _, _, _)
DigitsValue(src, p, e, base) ==
    IF e <= p THEN 0
    ELSE DigitsValue(src, p, e - 1, base) * base + DigitVal(src[e - 1])

\* A numeric literal that starts at p (a digit, or "." before a digit).
\* In the sloppy-mode body of new Function a literal that starts with 0 and
\* goes on with octal digits only is a legacy octal literal; with an 8 or 9 it
\* is decimal.  The character after a literal must not start an identifier or
\* be a digit.  Exponents, 0x/0o/0b prefixes, the BigInt suffix and numeric
\* separators need a letter or "_" right after a digit, which validated text
\* over the modelled variable names never has; they are not modelled.
NumericLiteral(src, p) ==
    LET e1 == DigitsEnd(src, p)
        legacyOctal == /\ e1 - p >= 2 /\ src[p] = "0"
                       /\ \A i \in p..(e1 - 1) : src[i] \in OctalDigits
        hasDot == ~legacyOctal /\ At(src, e1, ".")
        e2 == IF hasDot THEN DigitsEnd(src, e1 + 1) ELSE e1
        intPart == DigitsValue(src, p, e1, IF legacyOctal THEN 8 ELSE 10)
        fracDigits == IF hasDot THEN e2 - (e1 + 1) ELSE 0
        scale == IntPow(10, fracDigits)
        frac == IF hasDot THEN DigitsValue(src, e1 + 1, e2, 10) ELSE 0
    IN  IF AtSet(src, e2, IdentPart) THEN Failed
        ELSE Parsed(e2, [t |-> "num", v |-> Rat(1, intPart * scale + frac, scale)])

RegExpFlags == {"d", "g", "i", "m", "s", "u", "v", "y"}

\* the position of the "/" that closes the regular expression body, 0 if none
RECURSIVE RegExpBodyEnd(_, _)
RegExpBodyEnd(src, p) ==
    IF p > Len(src) THEN 0
    ELSE IF src[p] = "/" THEN p
    ELSE RegExpBodyEnd(src, p + 1)

\* whether body[i..] is a valid pattern, inside `depth` open groups, where
\* `atom` says that a quantifier may follow.  The body holds no "\", "[",
\* "{", "?", "|", "^" or "$": validated text has none of them.
RECURSIVE PatternOk(_, _, _, _)
PatternOk(body, i, depth, atom) ==
    IF i > Len(body) THEN depth = 0
    ELSE IF body[i] = "(" THEN PatternOk(body, i + 1, depth + 1, FALSE)
    ELSE IF body[i] = ")" THEN depth > 0 /\ PatternOk(body, i + 1, depth - 1, TRUE)
    ELSE IF body[i] \in {"+", "*"} THEN atom /\ PatternOk(body, i + 1, depth, FALSE)
    ELSE PatternOk(body, i + 1, depth, TRUE)

\* A regular expression literal that starts at the "/" at p
RegExpLiteral(src, p) ==
    LET close == RegExpBodyEnd(src, p + 1)
        fe == IdentEnd(src, close + 1)
        flags == SubSeq(src, close + 1, fe - 1)
    IN  IF close = 0 THEN Failed
        ELSE IF \E i \in 1..Len(flags) : flags[i] \notin RegExpFlags THEN Failed
        ELSE IF \E i, j \in 1..Len(flags) : i # j /\ flags[i] = flags[j] THEN Failed
        ELSE IF ~PatternOk(SubSeq(src, p + 1, close - 1), 1, 0, FALSE) THEN Failed
        ELSE Parsed(fe, [t |-> "regex"])

\* the expression inside parentheses
RECURSIVE StripParens(_)
StripParens(ast) == IF ast.t = "paren" THEN StripParens(ast.e) ELSE ast

\* AssignmentTargetType of the operand of ++ and --: an identifier or a
\* property access is simple; a call is an error only when it is run (sloppy
\* mode); anything else is an early error
TargetOk(ast) == StripParens(ast).t \in {"id", "member", "call"}

\* left op right with the operator joined to the last operand of left
BinaryNodeRightFirst(op, left, right) ==
    IF left.t = "binary"
    THEN [t |-> "binary", op |-> left.op, l |-> left.l,
          r |-> [t |-> "binary", op |-> op, l |-> left.r, r |-> right]]
    ELSE [t |-> "binary", op |-> op, l |-> left, r |-> right]

\* the tree of left op right, for an operator that takes the whole of what
\* was parsed to its left at its precedence as its left operand
BinaryNode(op, left, right) == [t |-> "binary", op |-> op, l |-> left, r |-> right]

IsUpdateToken(src, p) ==
    StartsWithAt(src, p, <<"+", "+">>) \/ StartsWithAt(src, p, <<"-", "-">>)

\* The recursive-descent parser, one operator for all grammar rules; `left`
\* is the operand already parsed, for the rules that continue an expression.
\*   Primary   PrimaryExpression: identifier, literal, regular expression,
\*             ( Expression ).  No modelled identifier is a reserved word.
\*   LHSRest   MemberExpression and CallExpression: what follows a primary
\*             expression.  An argument list holds at most one argument: a
\*             second needs a comma.
\*   Update    UpdateExpression: ++x, --x, x++, x--, LeftHandSideExpression
\*   Unary     UnaryExpression: + and - (a "+" or "-" that starts "++" or
\*             "--" is that token)
\*   Exponent  ExponentiationExpression: right-associative, and its base must
\*             not be a unary expression
\*   MulRest   MultiplicativeExpression: * and /, left-associative
\*   AddRest   AdditiveExpression: + and -, left-associative
\*   Expression
RECURSIVE Parse(_, _, _, _)
Parse(rule, src, left, p0) ==
    LET p == SkipTrivia(src, p0)
    IN
    IF p = 0 THEN Failed
    ELSE CASE rule = "Primary" ->
        IF p > Len(src) THEN Failed
        ELSE IF src[p] \in IdentStart THEN
            LET e == IdentEnd(src, p)
            IN  Parsed(e, [t |-> "id", name |-> SubSeq(src, p, e - 1)])
        ELSE IF src[p] \in Digits \/ (src[p] = "." /\ AtSet(src, p + 1, Digits))
            THEN NumericLiteral(src, p)
        ELSE IF src[p] = "(" THEN
            LET inner == Parse("Expression", src, NoTree, p + 1)
                q == SkipTrivia(src, inner.p)
            IN  IF inner.ok /\ At(src, q, ")")
                THEN Parsed(q + 1, [t |-> "paren", e |-> inner.ast])
                ELSE Failed
        ELSE IF src[p] = "/" THEN RegExpLiteral(src, p)
        ELSE Failed
    [] rule = "LHSRest" ->
        IF At(src, p, ".") THEN
            IF AtSet(src, p + 1, Digits) \/ StartsWithAt(src, p, <<".", ".", ".">>)
            THEN Failed
            ELSE LET q == SkipTrivia(src, p + 1)
                     e == IdentEnd(src, q)
                 IN  IF AtSet(src, q, IdentStart)
                     THEN Parse("LHSRest", src,
                            [t |-> "member", o |-> left, name |-> SubSeq(src, q, e - 1)], e)
                     ELSE Failed
        ELSE IF At(src, p, "(") THEN
            LET q == SkipTrivia(src, p + 1)
            IN  IF At(src, q, ")")
                THEN Parse("LHSRest", src,
                        [t |-> "call", f |-> left, argc |-> 0, spread |-> FALSE,
                         arg |-> NoTree], q + 1)
                ELSE LET spread == StartsWithAt(src, q, <<".", ".", ".">>)
                         a == Parse("Expression", src, NoTree, IF spread THEN q + 3 ELSE q)
                         r == SkipTrivia(src, a.p)
                     IN  IF q # 0 /\ a.ok /\ At(src, r, ")")
                         THEN Parse("LHSRest", src,
                                [t |-> "call", f |-> left, argc |-> 1, spread |-> spread,
                                 arg |-> a.ast], r + 1)
                         ELSE Failed
        ELSE Parsed(p, left)
    [] rule = "Update" ->
        IF IsUpdateToken(src, p) THEN
            LET operand == Parse("Unary", src, NoTree, p + 2)
            IN  IF operand.ok /\ TargetOk(operand.ast)
                THEN Parsed(operand.p, [t |-> "update", op |-> src[p], prefix |-> TRUE,
                                        e |-> operand.ast])
                ELSE Failed
        ELSE LET prim == Parse("Primary", src, NoTree, p)
                 lhs == IF prim.ok THEN Parse("LHSRest", src, prim.ast, prim.p) ELSE Failed
                 q == SkipTrivia(src, lhs.p)
             IN  IF ~lhs.ok THEN Failed
                 ELSE IF q # 0 /\ IsUpdateToken(src, q) THEN
                     IF TargetOk(lhs.ast)
                     THEN Parsed(q + 2, [t |-> "update", op |-> src[q], prefix |-> FALSE,
                                         e |-> lhs.ast])
                     ELSE Failed
                 ELSE lhs
    [] rule = "Unary" ->
        IF AtSet(src, p, {"+", "-"}) /\ ~IsUpdateToken(src, p) THEN
            LET operand == Parse("Unary", src, NoTree, p + 1)
            IN  IF operand.ok
                THEN Parsed(operand.p, [t |-> "unary", op |-> src[p], e |-> operand.ast])
                ELSE Failed
        ELSE Parse("Update", src, NoTree, p)
    [] rule = "Exponent" ->
        LET base == Parse("Unary", src, NoTree, p)
            q == SkipTrivia(src, base.p)
        IN  IF ~base.ok THEN Failed
            ELSE IF q # 0 /\ StartsWithAt(src, q, <<"*", "*">>) THEN
                LET exponent == Parse("Exponent", src, NoTree, q + 2)
                IN  IF base.ast.t # "unary" /\ exponent.ok
                    THEN Parsed(exponent.p, [t |-> "binary", op |-> "**", l |-> base.ast,
                                             r |-> exponent.ast])
                    ELSE Failed
            ELSE base
    [] rule = "MulRest" ->
        IF AtSet(src, p, {"*", "/"}) THEN
            LET right == Parse("Exponent", src, NoTree, p + 1)
            IN  IF right.ok
                THEN Parse("MulRest", src, BinaryNode(src[p], left, right.ast), right.p)
                ELSE Failed
        ELSE Parsed(p, left)
    [] rule = "AddRest" ->
        IF AtSet(src, p, {"+", "-"}) /\ ~IsUpdateToken(src, p) THEN
            LET first == Parse("Exponent", src, NoTree, p + 1)
                right == IF first.ok THEN Parse("MulRest", src, first.ast, first.p)
                         ELSE Failed
            IN  IF right.ok
                THEN Parse("AddRest", src, BinaryNode(src[p], left, right.ast), right.p)
                ELSE Failed
        ELSE Parsed(p, left)
    [] rule = "Expression" ->
        LET first == Parse("Exponent", src, NoTree, p)
            mul == IF first.ok THEN Parse("MulRest", src, first.ast, first.p) ELSE Failed
        IN  IF mul.ok THEN Parse("AddRest", src, mul.ast, mul.p) ELSE Failed

ParseExpression(src, p) == Parse("Expression", src, NoTree, p)

\* The body `return <text>;`: the tree of the returned expression, a tree
\* "empty" for a bare `return;` (the text holds comments only), or a failure,
\* which is the SyntaxError that new Function throws
ParseBody(src) ==
    LET p == SkipTrivia(src, 1)
        e == ParseExpression(src, p)
    IN  IF p = 0 THEN Failed
        ELSE IF p > Len(src) THEN Parsed(p, [t |-> "empty"])
        ELSE IF e.ok /\ SkipTrivia(src, e.p) = Len(src) + 1 THEN e
        ELSE Failed

-----------------------------------------------------------------------------
(* evalFunction(...paramValues): the evaluation of the body.  env is the   *)
(* sequence of the function's parameters [name, value]; ++ and -- assign   *)
(* to a parameter.  The outcome of a (sub)expression is its value v, the   *)
(* environment after it, the exception thrown ("" for none) and whether a  *)
(* division by zero was executed.                                          *)

Outcome(v, env, err, dz) == [v |-> v, env |-> env, err |-> err, dz |-> dz]

\* the binding of an identifier: the last parameter of that name, 0 if none
Resolve(env, name) ==
    LET m == {i \in 1..Len(env) : env[i].name = name}
    IN  IF m = {} THEN 0 ELSE CHOOSE i \in m : \A j \in m : j <= i

\* ToPrimitive gives a string for a RegExp and a function: x + y concatenates
\* when either side is one, or a string
ConcatenatesWith(v) == v.k \in {"string", "object", "function"}

\* lines 84-88: Math.min, Math.max, Math.round, Math.floor, Math.ceil applied
\* to the list args (their arguments go through ToNumber)
ApplyMath(f, args) ==
    LET nums == [i \in 1..Len(args) |-> ToNumber(args[i])]
        anyNaN == \E i \in 1..Len(nums) : nums[i].k = "nan"
    IN  CASE f = "min" -> IF Len(nums) = 0 THEN InfV(1)
                          ELSE IF anyNaN THEN NaNV ELSE nums[1]
          [] f = "max" -> IF Len(nums) = 0 THEN InfV(-1)
                          ELSE IF anyNaN THEN NaNV ELSE nums[1]
          [] f = "round" -> IF Len(nums) = 0 THEN NaNV ELSE MathRound(nums[1])
          [] f = "floor" -> IF Len(nums) = 0 THEN NaNV ELSE MathFloor(nums[1])
          [] f = "ceil" -> IF Len(nums) = 0 THEN NaNV ELSE MathCeil(nums[1])

\* l op r for the binary operators
ApplyBinary(op, l, r) ==
    CASE op = "+" -> IF ConcatenatesWith(l) \/ ConcatenatesWith(r) THEN StringV
                     ELSE NumAdd(ToNumber(l), ToNumber(r))
      [] op = "-" -> NumSub(ToNumber(l), ToNumber(r))
      [] op = "*" -> NumMul(ToNumber(l), ToNumber(r))
      [] op = "/" -> NumDiv(ToNumber(l), ToNumber(r))
      [] op = "**" -> NumPow(ToNumber(l), ToNumber(r))

RECURSIVE Eval(_, _)
Eval(ast, env) ==
    CASE ast.t = "empty" -> Outcome(Undefined, env, "", FALSE)
      [] ast.t = "num" -> Outcome(ast.v, env, "", FALSE)
      [] ast.t = "regex" -> Outcome(RegExpObject, env, "", FALSE)
      [] ast.t = "paren" -> Eval(ast.e, env)
      [] ast.t = "id" ->
            LET i == Resolve(env, ast.name)
            IN  IF i = 0 THEN Outcome(Undefined, env, "ReferenceError", FALSE)
                ELSE Outcome(env[i].value, env, "", FALSE)
      [] ast.t = "member" ->
            \* no modelled name is a property of a number, a string, a RegExp
            \* or a function: the access gives undefined
            LET o == Eval(ast.o, env)
            IN  IF o.err # "" THEN o
                ELSE IF o.v.k = "undefined" THEN Outcome(Undefined, o.env, "TypeError", o.dz)
                ELSE Outcome(Undefined, o.env, "", o.dz)
      [] ast.t = "call" ->
            LET f == Eval(ast.f, env)
                a == IF ast.argc = 0 THEN Outcome(Undefined, f.env, "", FALSE)
                     ELSE Eval(ast.arg, f.env)
                dz == f.dz \/ a.dz
                \* a spread argument must be iterable: of the modelled values
                \* only a string is, and its characters are not numerals
                args == IF ast.argc = 0 THEN <<>>
                        ELSE IF ast.spread THEN <<NaNV>> ELSE <<a.v>>
            IN  IF f.err # "" THEN f
                ELSE IF a.err # "" THEN Outcome(Undefined, a.env, a.err, dz)
                ELSE IF ast.argc = 1 /\ ast.spread /\ a.v.k # "string"
                     THEN Outcome(Undefined, a.env, "TypeError", dz)
                ELSE IF f.v.k # "function" THEN Outcome(Undefined, a.env, "TypeError", dz)
                ELSE Outcome(ApplyMath(f.v.f, args), a.env, "", dz)
      [] ast.t = "unary" ->
            LET e == Eval(ast.e, env)
            IN  IF e.err # "" THEN e
                ELSE Outcome(IF ast.op = "-" THEN Negate(ToNumber(e.v)) ELSE ToNumber(e.v),
                             e.env, "", e.dz)
      [] ast.t = "update" ->
            LET target == StripParens(ast.e)
                delta == IF ast.op = "+" THEN IntV(1) ELSE IntV(-1)
            IN  IF target.t = "id" THEN
                    LET i == Resolve(env, target.name)
                        old == ToNumber(env[i].value)
                        new == NumAdd(old, delta)
                    IN  IF i = 0 THEN Outcome(Undefined, env, "ReferenceError", FALSE)
                        ELSE Outcome(IF ast.prefix THEN new ELSE old,
                                     [env EXCEPT ![i].value = new], "", FALSE)
                ELSE IF target.t = "member" THEN
                    \* the property is undefined, so the old value is NaN; the
                    \* assignment to a property of a primitive is dropped
                    LET m == Eval(target, env)
                    IN  IF m.err # "" THEN m ELSE Outcome(NaNV, m.env, "", m.dz)
                ELSE
                    \* a call as the operand: the call is made, then a
                    \* ReferenceError is thrown
                    LET c == Eval(target, env)
                    IN  IF c.err # "" THEN c
                        ELSE Outcome(Undefined, c.env, "ReferenceError", c.dz)
      [] ast.t = "binary" ->
            LET l == Eval(ast.l, env)
                r == Eval(ast.r, l.env)
                dz == l.dz \/ r.dz \/ (ast.op = "/" /\ IsZero(ToNumber(r.v)))
            IN  IF l.err # "" THEN l
                ELSE IF r.err # "" THEN Outcome(Undefined, r.env, r.err, l.dz \/ r.dz)
                ELSE Outcome(ApplyBinary(ast.op, l.v, r.v), r.env, "", dz)

-----------------------------------------------------------------------------
(* The modelled calls.  An evaluateFormula call is made with a formula and *)
(* a binding: every text of up to MaxLen pieces out of                     *)
(* Pieces, alone and as the divisor of the binding's first variable, with  *)
(* the integer bindings ShortBindings; and the formulas of Catalogue (the  *)
(* examples of the documentation and the seeded part formulas among them)  *)
(* and the non-string arguments, with the bindings CatalogueBindings.      *)

MaxLen == 3

Var(name, value) == [name |-> name, value |-> value]
NameW == <<"W">>
NameT == <<"T">>
NameH == <<"H">>
NameD == <<"D">>
NameHDrawer == <<"H","_","d","r","a","w","e","r">>
NameDDrawer == <<"D","_","d","r","a","w","e","r">>
NameTDoor == <<"T","_","d","o","o","r">>
NameTBottom == <<"T","_","b","o","t","t","o","m">>

BindingNone == <<>>
BindingW == <<Var(NameW, IntV(10))>>
BindingWT == <<Var(NameW, IntV(24)), Var(NameT, Rat(1, 3, 4))>>
BindingHFirst == <<Var(NameH, IntV(30)), Var(NameHDrawer, IntV(7))>>
BindingHLast == <<Var(NameHDrawer, IntV(7)), Var(NameH, IntV(30))>>
BindingHDrawer == <<Var(NameHDrawer, IntV(7))>>
BindingProject ==
    <<Var(NameW, IntV(24)), Var(NameH, IntV(30)), Var(NameD, IntV(12)),
      Var(NameT, Rat(1, 3, 4)), Var(NameTDoor, Rat(1, 3, 4)),
      Var(NameHDrawer, IntV(6)), Var(NameDDrawer, IntV(11)),
      Var(NameTBottom, Rat(1, 1, 4))>>

ShortBindings == {BindingW, BindingHFirst, BindingHLast}
CatalogueBindings ==
    {BindingNone, BindingW, BindingWT, BindingHFirst, BindingHLast, BindingHDrawer,
     BindingProject}

Pieces ==
    {NameW, NameH, NameHDrawer, <<"V">>, <<"0">>, <<"1">>, <<"+">>, <<"-">>, <<"/">>,
     <<"(">>, <<")">>, <<" ">>, <<";">>, <<"m","i","n">>}

RECURSIVE Flatten(_)
Flatten(ps) == IF ps = <<>> THEN <<>> ELSE Head(ps) \o Flatten(Tail(ps))

\* the texts of n pieces, n up to MaxLen
PieceLists(n) == [1..n -> Pieces]

\* text as the divisor of the variable name: name/(text)
AsDivisor(name, text) == name \o <<"/", "(">> \o text \o <<")">>

\* a short text, alone or as a divisor, with the binding b
ShortInput(ps, b, divisor) ==
    [f |-> StringF(IF divisor THEN AsDivisor(b[1].name, Flatten(ps)) ELSE Flatten(ps)),
     v |-> b]

Catalogue ==
    {StringF(<<"W"," ","-"," ","2","*","T">>),
     StringF(<<"W","/","2"," ","-"," ","0",".","5">>),
     StringF(<<"r","o","u","n","d","(","H","_","d","r","a","w","e","r"," ","/"," ","2",")">>),
     StringF(<<"W"," ","/"," ","(","T"," ","-"," ","T",")">>),
     StringF(<<"X"," ","+"," ","1">>),
     StringF(<<"W",";"," ","D","R","O","P"," ","T","A","B","L","E"," ","p","a","r","t","s">>),
     StringF(<<"m","i","n","(","W",")">>),
     StringF(<<"m","i","n","(","W",","," ","T",")">>),
     StringF(<<"m","a","x","(","W",","," ","T",")">>),
     StringF(<<"m","a","x","(","W",")">>),
     StringF(<<"r","o","u","n","d","(",")">>),
     StringF(<<"m","i","n","(",")">>),
     StringF(<<"H","_","d","r","a","w","e","r">>),
     StringF(<<"H","_","d","r","a","w","e","r"," ","-"," ","T">>),
     StringF(<<"T","_","d","o","o","r">>),
     StringF(<<"W"," ","-"," ","2","*","T"," ","-"," ","0",".","1","2","5">>),
     StringF(<<"V"," ","+"," ","1">>),
     StringF(<<"N">>),
     StringF(<<"F","(","W",")">>),
     StringF(<<"W","1">>),
     StringF(<<"W"," ","W">>),
     StringF(<<"W"," ","T">>),
     StringF(<<"(","(","W">>),
     StringF(<<"W"," ","+">>),
     StringF(<<"1",".","2",".","3">>),
     StringF(<<"0","1","0">>),
     StringF(<<"0","8",".","5">>),
     StringF(<<"1",".",".","V">>),
     StringF(<<"W",".","V">>),
     StringF(<<"W","*","*","2">>),
     StringF(<<"-","W","*","*","2">>),
     StringF(<<"(","-","W",")","*","*","2">>),
     StringF(<<"2","*","*","-","1">>),
     StringF(<<"-","-","W">>),
     StringF(<<"+","+","W">>),
     StringF(<<"W","-","-">>),
     StringF(<<"W","-","-","T">>),
     StringF(<<"W"," ","-"," ","-","T">>),
     StringF(<<"-","-","W"," ","+"," ","W">>),
     StringF(<<"W","/","*","T","*","/">>),
     StringF(<<"W","/","*","T">>),
     StringF(<<"W","/","/","T">>),
     StringF(<<"/","W","/">>),
     StringF(<<"1"," ","+"," ","/","W","+","/">>),
     StringF(<<"W"," ","="," ","1">>),
     StringF(<<"W",",","T">>),
     StringF(<<"'","W","'">>),
     StringF(<<"[","W","]">>),
     StringF(<<"f","l","o","o","r","(","W"," ","/"," ","T",")">>),
     StringF(<<"c","e","i","l","(","-","T",")">>),
     StringF(<<"r","o","u","n","d","(","-","T"," ","/"," ","2",")">>),
     StringF(<<"W"," ","/"," ","(","W"," ","/"," ","(","T"," ","-"," ","T",")",")">>),
     StringF(<<"m","i","n","(",".",".",".","W",")">>),
     StringF(<<"T"," ","-"," ","T">>),
     StringF(<<"0"," ","*"," ","-","1">>),
     StringF(<<"1"," ","/"," ","(","0"," ","*"," ","-","1",")">>),
     StringF(<<>>), StringF(<<" ">>), StringF(<<" ", " ">>),
     NullF, UndefinedF, NumberF(0), NumberF(5), ObjectF}

CatalogueInputs == {[f |-> c, v |-> b] : c \in Catalogue, b \in CatalogueBindings}

\* evaluatePartDimensions is called with a part whose three formulas are out
\* of PartFormulas (absent, empty or a text), and the binding BindingWT
Axes == {"width", "height", "depth"}
PartFormulas ==
    {NullF, StringF(<<>>), StringF(<<"W">>), StringF(<<"W"," ","-"," ","2","*","T">>),
     StringF(<<"T"," ","-"," ","T">>), StringF(<<"W"," ","/"," ","(","T"," ","-"," ","T",")">>),
     StringF(<<"X">>), StringF(<<" ">>)}
Parts == [Axes -> PartFormulas]

\* arithmetic of three operands and two operators, as a op b op c,
\* (a op b) op c or a op (b op c)
Operands == {NameW, NameT, <<"2">>, <<"0", ".", "5">>}
Operators == {"+", "-", "*", "/"}
Shapes == {"flat", "left", "right"}
Arithmetic(a, o1, b, o2, c, shape) ==
    CASE shape = "flat" -> a \o <<" ", o1, " ">> \o b \o <<o2>> \o c
      [] shape = "left" -> <<"(">> \o a \o <<o1>> \o b \o <<")", " ", o2, " ">> \o c
      [] shape = "right" -> a \o <<o1, "(">> \o b \o <<" ", o2, " ">> \o c \o <<")">>

\* the calls of one caller on one binding object: at most MaxCalls, the
\* first formula or one of OtherCalls each time
MaxCalls == 3
OtherCalls ==
    {StringF(<<"-","-","W">>), StringF(<<"W","+","+">>), StringF(<<"m","i","n","(","W",")">>),
     StringF(<<"W"," ","-"," ","2","*","T">>)}

-----------------------------------------------------------------------------
(* evaluateFormula *)

NoError == [message |-> "", cause |-> ""]
\* line 75
InvalidFormula == [message |-> "Invalid formula", cause |-> ""]
\* line 109: the error that wraps what the try block threw; cause is the
\* thrown error's kind
EvaluationError(cause) == [message |-> "Error evaluating formula", cause |-> cause]
\* line 104
NotValidNumber == "Formula evaluation did not produce a valid number"

\* the verdict of validateFormula ignored
ValidationIgnored(v) == FALSE

\* line 74: the `if` that guards the throw of line 75
ValidationFailed(v) == ~v

\* lines 81-94: the context, in key order: the variables, then the five
\* functions, each replacing a variable of its name or added at the end
RECURSIVE AddToContext(_, _, _)
AddToContext(context, names, i) ==
    IF i > Len(names) THEN context
    ELSE LET at == {j \in 1..Len(context) : context[j].name = names[i]}
             fn == MathFunction(CASE i = 1 -> "min" [] i = 2 -> "max" [] i = 3 -> "round"
                                  [] i = 4 -> "floor" [] i = 5 -> "ceil")
         IN  AddToContext(
                IF at = {} THEN Append(context, Var(names[i], fn))
                ELSE [j \in 1..Len(context) |->
                        IF j \in at THEN Var(names[i], fn) ELSE context[j]],
                names, i + 1)

Context(v) == AddToContext(v, ALLOWED_FUNCTIONS, 1)

\* the test of line 103 reduced to typeof result === 'number'
IsValidNumberByTypeOnly(r) == r.k \in {"fin", "inf", "nan"}

\* the caller's object after evalFunction ran with the parameters env, were
\* the parameters the properties of that object
BindingWrittenBack(v, env) ==
    [i \in 1..Len(v) |-> [v[i] EXCEPT !.value = env[Resolve(env, v[i].name)].value]]

\* lines 81 and 93-100: evalFunction gets the values of a copy of the
\* caller's object as its parameters; what the body assigns to a parameter
\* (++, --) stays inside the function, and the caller's object is as it was
CallerBinding(v, env) == v

\* line 103
IsValidNumber(r) == r.k = "fin"

\* lines 73-76
Validate ==
    /\ pc = "start"
    /\ valid' = validateFormula(formula, variables)
    /\ IF ValidationFailed(valid')
       THEN pc' = "thrown" /\ error' = InvalidFormula
       ELSE pc' = "try" /\ error' = error
    /\ UNCHANGED <<caller, formula, variables, evalFunction, result, divByZero,
                   part, dimensions, axis, given, history>>

\* lines 81-97, with the catch of line 108 for the SyntaxError of new Function
Construct ==
    /\ pc = "try"
    /\ LET parsed == ParseBody(formula.s)
       IN  IF parsed.ok
           THEN pc' = "constructed" /\ evalFunction' = parsed.ast /\ error' = error
           ELSE pc' = "thrown" /\ evalFunction' = evalFunction
                /\ error' = EvaluationError("SyntaxError")
    /\ UNCHANGED <<caller, formula, variables, valid, result, divByZero,
                   part, dimensions, axis, given, history>>

\* line 100, with the catch of line 108 for what the call throws
Execute ==
    /\ pc = "constructed"
    /\ LET out == Eval(evalFunction, Context(variables))
       IN  /\ divByZero' = out.dz
           /\ variables' = CallerBinding(variables, out.env)
           /\ IF out.err = ""
              THEN pc' = "executed" /\ result' = out.v /\ error' = error
              ELSE pc' = "thrown" /\ result' = result /\ error' = EvaluationError(out.err)
    /\ UNCHANGED <<caller, formula, valid, evalFunction, part, dimensions, axis,
                   given, history>>

\* lines 103-107, with the catch of line 108 for the throw of line 104
CheckResult ==
    /\ pc = "executed"
    /\ IF IsValidNumber(result)
       THEN pc' = "returned" /\ error' = error
       ELSE pc' = "thrown" /\ error' = EvaluationError(NotValidNumber)
    /\ UNCHANGED <<caller, formula, variables, valid, evalFunction, result, divByZero,
                   part, dimensions, axis, given, history>>

-----------------------------------------------------------------------------
(* evaluatePartDimensions *)

NextAxis(a) ==
    CASE a = "width" -> "height" [] a = "height" -> "depth" [] a = "depth" -> "returned"

\* lines 121-125
InitialDimensions == [a \in Axes |-> IntV(0)]

NoFunction == NoTree

\* how the current call ended, with the arguments it was given
CallRecord ==
    [f |-> given.f, v |-> given.v, valid |-> valid, outcome |-> pc,
     result |-> result, error |-> error]

\* where evaluatePartDimensions goes on after an error of evaluateFormula,
\* were the error caught for each axis
AfterThrowNextAxis(a) == NextAxis(a)

\* lines 127-137: no try around the calls; an error of evaluateFormula ends
\* evaluatePartDimensions, whatever the axis
AfterThrow(a) == "thrown"

\* lines 127-128, 131-132, 135-136: the test of the axis's formula and the
\* call of evaluateFormula
AxisCall ==
    /\ caller = "evaluatePartDimensions" /\ axis \in Axes /\ pc = "idle"
    /\ IF Truthy(part[axis])
       THEN /\ formula' = part[axis] /\ pc' = "start" /\ axis' = axis
            /\ given' = [f |-> part[axis], v |-> variables]
            /\ valid' = FALSE /\ evalFunction' = NoFunction /\ result' = Undefined
            /\ divByZero' = FALSE /\ error' = NoError
       ELSE /\ axis' = NextAxis(axis)
            /\ UNCHANGED <<formula, pc, valid, evalFunction, result, divByZero, error,
                           given>>
    /\ UNCHANGED <<caller, variables, part, dimensions, history>>

\* lines 128, 132, 136: the assignment of what evaluateFormula returned
AxisReturn ==
    /\ caller = "evaluatePartDimensions" /\ axis \in Axes /\ pc = "returned"
    /\ dimensions' = [dimensions EXCEPT ![axis] = result]
    /\ axis' = NextAxis(axis)
    /\ pc' = "idle"
    /\ history' = Append(history, CallRecord)
    /\ UNCHANGED <<caller, formula, variables, valid, evalFunction, result, divByZero,
                   error, part, given>>

\* the Error of evaluateFormula is not caught: it ends evaluatePartDimensions
AxisThrow ==
    /\ caller = "evaluatePartDimensions" /\ axis \in Axes /\ pc = "thrown"
    /\ axis' = AfterThrow(axis)
    /\ pc' = "idle"
    /\ history' = Append(history, CallRecord)
    /\ UNCHANGED <<caller, formula, variables, valid, evalFunction, result, divByZero,
                   error, part, dimensions, given>>

-----------------------------------------------------------------------------
(* A caller that calls evaluateFormula several times with one binding      *)
(* object: the first formula again, or another one in between.             *)

\* line 72: the next call, made when the current one has returned or thrown
CallAgain ==
    /\ caller = "repeated calls" /\ pc \in {"returned", "thrown"}
    /\ Len(history) < MaxCalls - 1
    /\ history' = Append(history, CallRecord)
    /\ \E f \in {history'[1].f} \cup OtherCalls : formula' = f
    /\ given' = [f |-> formula', v |-> variables]
    /\ pc' = "start"
    /\ valid' = FALSE /\ evalFunction' = NoFunction /\ result' = Undefined
    /\ divByZero' = FALSE /\ error' = NoError
    /\ UNCHANGED <<caller, variables, part, dimensions, axis>>

-----------------------------------------------------------------------------

InitFormula ==
    /\ caller = "evaluateFormula"
    /\ \/ \E n \in 0..MaxLen : \E ps \in PieceLists(n) :
             \E b \in ShortBindings : \E divisor \in BOOLEAN :
                LET in == ShortInput(ps, b, divisor)
                IN  formula = in.f /\ variables = in.v
       \/ \E in \in CatalogueInputs : formula = in.f /\ variables = in.v
       \/ \E a, b, c \in Operands : \E o1, o2 \in Operators : \E shape \in Shapes :
             /\ formula = StringF(Arithmetic(a, o1, b, o2, c, shape))
             /\ variables = BindingWT
    /\ pc = "start"
    /\ part = [a \in Axes |-> NullF]
    /\ dimensions = InitialDimensions
    /\ axis = "none"

InitCalls ==
    /\ caller = "repeated calls"
    /\ \E in \in CatalogueInputs : formula = in.f /\ variables = in.v
    /\ pc = "start"
    /\ part = [a \in Axes |-> NullF]
    /\ dimensions = InitialDimensions
    /\ axis = "none"

InitDimensions ==
    /\ caller = "evaluatePartDimensions"
    /\ part \in Parts
    /\ variables = BindingWT
    /\ formula = NullF
    /\ pc = "idle"
    /\ dimensions = InitialDimensions
    /\ axis = "width"

Init ==
    /\ InitFormula \/ InitDimensions \/ InitCalls
    /\ given = [f |-> formula, v |-> variables]
    /\ history = <<>>
    /\ valid = FALSE
    /\ evalFunction = NoFunction
    /\ result = Undefined
    /\ divByZero = FALSE
    /\ error = NoError

Next ==
    \/ Validate
    \/ Construct
    \/ Execute
    \/ CheckResult
    \/ AxisCall
    \/ AxisReturn
    \/ AxisThrow
    \/ CallAgain

Spec == Init /\ [][Next]_vars

-----------------------------------------------------------------------------
(* Properties *)

\* validateFormula has returned for the current call of evaluateFormula
Validated == pc \in {"try", "constructed", "executed", "returned", "thrown"}
\* the current call of evaluateFormula has ended
Finished == pc \in {"returned", "thrown"}

IsText(f, text) == f.t = "string" /\ f.s = text

WordChars == Letters \cup Digits \cup {"_"}
OperatorSymbols == {"+", "-", "*", "/", "(", ")", "."}
Blanks == {" "}

Range(seq) == {seq[i] : i \in 1..Len(seq)}
NoBlanks(s) == SelectSeq(s, LAMBDA c : c \notin Blanks)

RECURSIVE WordEnd(_, _)
WordEnd(s, i) == IF i <= Len(s) /\ s[i] \in WordChars THEN WordEnd(s, i + 1) ELSE i

\* s holds an identifier (a maximal run of word characters that is not all
\* digits) that is neither one of names nor a function name before "("
HasUnknownIdentifier(s, names) ==
    \E i \in 1..Len(s) :
        /\ s[i] \in WordChars
        /\ i = 1 \/ s[i - 1] \notin WordChars
        /\ LET e == WordEnd(s, i)
               w == SubSeq(s, i, e - 1)
           IN  /\ \E j \in 1..Len(w) : w[j] \notin Digits
               /\ w \notin Range(names)
               /\ ~(w \in Range(ALLOWED_FUNCTIONS) /\ e <= Len(s) /\ s[e] = "(")

\* C1: a formula whose text, white space removed, holds an identifier that is
\* neither a key of the binding nor a function name followed by "(" is
\* rejected by validateFormula, and evaluateFormula fails with the
\* invalid-formula error.
C1_UnknownIdentifierRejected ==
    (/\ formula.t = "string"
     /\ Validated
     /\ HasUnknownIdentifier(NoBlanks(formula.s), Keys(variables)))
    => (~valid /\ pc = "thrown" /\ error = InvalidFormula)

HasDisallowedSymbol(s) ==
    \E i \in 1..Len(s) : s[i] \notin (Blanks \cup WordChars \cup OperatorSymbols)

\* C2: a formula that holds, outside white space, a character that is not a
\* letter, a digit, an underscore or one of + - * / ( ) . is rejected by
\* validateFormula (the keys of every modelled binding are identifiers), and
\* evaluateFormula fails with the invalid-formula error.
C2_DisallowedSymbolRejected ==
    (formula.t = "string" /\ Validated /\ HasDisallowedSymbol(formula.s))
    => (~valid /\ pc = "thrown" /\ error = InvalidFormula)

\* the text "W; DROP TABLE parts" has been rejected
C2_Witness ==
    /\ IsText(formula, <<"W",";"," ","D","R","O","P"," ","T","A","B","L","E"," ","p","a","r","t","s">>)
    /\ variables = BindingWT
    /\ pc = "thrown" /\ error = InvalidFormula /\ ~valid

IsProperPrefix(a, b) == Len(a) < Len(b) /\ SubSeq(b, 1, Len(a)) = a

\* C3: when one key of the binding is a prefix of another, a formula that is
\* the longer name is accepted by validateFormula, whatever the order of the
\* keys.
C3_LongestNameFirst ==
    (/\ formula.t = "string"
     /\ Validated
     /\ \E i, j \in 1..Len(variables) :
            /\ IsProperPrefix(variables[i].name, variables[j].name)
            /\ NoBlanks(formula.s) = variables[j].name)
    => valid

\* C4: evaluateFormula runs validateFormula before it builds or runs
\* anything: a function is built only after validateFormula returned true,
\* and when it returned false the call has thrown the invalid-formula error
\* with no function built and nothing executed.
C4_ValidateFirst ==
    /\ pc = "start" => evalFunction.t = "none"
    /\ (pc \in {"constructed", "executed", "returned"} \/ evalFunction.t # "none")
         => valid
    /\ (Validated /\ ~valid)
         => /\ pc = "thrown" /\ error = InvalidFormula
            /\ evalFunction.t = "none" /\ result = Undefined

\* "X + 1" with {W: 10} has failed validation: nothing was built
C4_Witness ==
    /\ IsText(formula, <<"X"," ","+"," ","1">>)
    /\ variables = BindingW
    /\ pc = "thrown" /\ error = InvalidFormula /\ evalFunction.t = "none"

\* C5: a call of evaluateFormula with a binding of finite numbers ends in one
\* of two ways: it returns a finite number, or it throws one of its two
\* errors; NaN, an infinity or a value that is not a number is never returned.
C5_FiniteOrFailure ==
    /\ pc = "returned" =>
          /\ result.k = "fin" /\ result.d > 0
          /\ error = NoError
    /\ pc = "thrown" =>
          error.message \in {"Invalid formula", "Error evaluating formula"}

\* "W / (T - T)" was accepted and evaluated to Infinity, which was not
\* returned
C5_Witness ==
    /\ IsText(formula, <<"W"," ","/"," ","(","T"," ","-"," ","T",")">>)
    /\ valid /\ result = InfV(1)
    /\ pc = "thrown" /\ error = EvaluationError(NotValidNumber)

\* the text is name(a1,...,an), the arguments without parentheses
IsCallOf(s, name) ==
    /\ Len(s) >= Len(name) + 2
    /\ StartsWithAt(s, 1, name \o <<"(">>)
    /\ s[Len(s)] = ")"
    /\ \A i \in (Len(name) + 2)..(Len(s) - 1) : s[i] \notin {"(", ")"}

CallArguments(s, name) == SubSeq(s, Len(name) + 2, Len(s) - 1)

\* the arguments of name(a1,...,an): the texts between the commas
RECURSIVE SplitAtCommas(_)
SplitAtCommas(s) ==
    IF \A i \in 1..Len(s) : s[i] # ","
    THEN <<s>>
    ELSE LET c == CHOOSE i \in 1..Len(s) : s[i] = "," /\ \A j \in 1..(i - 1) : s[j] # ","
         IN  <<SubSeq(s, 1, c - 1)>> \o SplitAtCommas(SubSeq(s, c + 1, Len(s)))

ArgumentList(s, name) ==
    IF CallArguments(s, name) = <<>> THEN <<>> ELSE SplitAtCommas(CallArguments(s, name))

\* the declared number of arguments: min and max 2, round, floor and ceil 1
Arity(f) == IF f \in {1, 2} THEN 2 ELSE 1

\* the formula is a call of function f whose arguments are n variables of
\* the binding
IsCallWithVariables(f, n) ==
    /\ formula.t = "string"
    /\ IsCallOf(NoBlanks(formula.s), ALLOWED_FUNCTIONS[f])
    /\ LET args == ArgumentList(NoBlanks(formula.s), ALLOWED_FUNCTIONS[f])
       IN  Len(args) = n /\ \A i \in 1..n : args[i] \in Range(Keys(variables))

\* C6: a call of min or max with a number of arguments other than 2, or of
\* round, floor or ceil with a number other than 1, makes evaluateFormula
\* fail in its evaluation (where a syntax error surfaces) instead of
\* returning a number.
C6_ArityEnforced ==
    \A f \in 1..5 : \A n \in 0..3 :
        (n # Arity(f) /\ IsCallWithVariables(f, n) /\ Finished)
        => (pc = "thrown" /\ error.message = "Error evaluating formula")

\* a <= b for finite numbers
NumLeq(a, b) == a.s * a.n * b.d <= b.s * b.n * a.d

Lookup(v, name) == v[CHOOSE i \in 1..Len(v) : v[i].name = name].value

\* C7: a call of min or max with two arguments that are variables of the
\* binding is accepted by validateFormula, and evaluateFormula returns the
\* smaller, respectively the larger, of the two values.
C7_BinaryMinMax ==
    \A f \in {1, 2} :
        (IsCallWithVariables(f, 2) /\ Validated)
        => /\ valid
           /\ Finished =>
                LET args == ArgumentList(NoBlanks(formula.s), ALLOWED_FUNCTIONS[f])
                    a == Lookup(variables, args[1])
                    b == Lookup(variables, args[2])
                IN  /\ pc = "returned"
                    /\ result = IF (f = 1) = NumLeq(a, b) THEN a ELSE b

\* C8: a formula in which a division by an expression whose value is 0 was
\* executed never returns a number: evaluateFormula ends in its evaluation
\* failure.
C8_DivisionByZeroFails ==
    (divByZero /\ Finished)
    => (pc = "thrown" /\ error.message = "Error evaluating formula")

IsAbsent(f) == f.t \in {"null", "undefined"}

\* C9: in the record that evaluatePartDimensions returns, the axis of an
\* absent formula is unset (not the number 0), and the axis of a present
\* formula holds a number.
C9_AbsentAxisUnset ==
    (caller = "evaluatePartDimensions" /\ axis = "returned")
    => \A a \in Axes :
          IF IsAbsent(part[a]) THEN dimensions[a].k = "undefined"
          ELSE dimensions[a].k = "fin"

IsBlank(f) == f.t # "string" \/ \A i \in 1..Len(f.s) : f.s[i] \in Blanks

\* C10: a formula that is null, not a string, the empty string or white
\* space only is rejected by validateFormula, and evaluateFormula fails with
\* the invalid-formula error, with every binding.
C10_BlankRejected ==
    (Validated /\ IsBlank(formula))
    => (~valid /\ pc = "thrown" /\ error = InvalidFormula)

\* a formula of two spaces has been rejected
C10_Witness ==
    /\ IsText(formula, <<" ", " ">>)
    /\ variables = BindingProject
    /\ pc = "thrown" /\ error = InvalidFormula /\ ~valid

\* an earlier call of this caller had the arguments of the current call
SameArguments(call) == call.f = given.f /\ call.v = given.v

RECURSIVE Trim(_)
Trim(s) ==
    IF s = <<>> THEN s
    ELSE IF Head(s) \in Blanks THEN Trim(Tail(s))
    ELSE IF s[Len(s)] \in Blanks THEN Trim(SubSeq(s, 1, Len(s) - 1))
    ELSE s

\* the positions of s that hold one of ops outside every parenthesis
TopLevel(s, ops) ==
    {i \in 1..Len(s) :
        /\ s[i] \in ops
        /\ Cardinality({j \in 1..(i - 1) : s[j] = "("})
             = Cardinality({j \in 1..(i - 1) : s[j] = ")"})}

Last(S) == CHOOSE i \in S : \A j \in S : j <= i

RECURSIVE Decimal(_)
Decimal(s) == IF s = <<>> THEN 0 ELSE Decimal(SubSeq(s, 1, Len(s) - 1)) * 10 + DigitVal(s[Len(s)])

\* a decimal literal digits(.digits)? whose integer part has no leading zero
IsDecimalLiteral(s) ==
    LET dots == {i \in 1..Len(s) : s[i] = "."}
        int == IF dots = {} THEN s ELSE SubSeq(s, 1, Last(dots) - 1)
    IN  /\ Cardinality(dots) <= 1
        /\ \A i \in 1..Len(s) : s[i] \in Digits \cup {"."}
        /\ Len(int) >= 1 /\ (Len(int) > 1 => int[1] # "0")
        /\ dots # {} => Last(dots) < Len(s)

DecimalValue(s) ==
    LET dots == {i \in 1..Len(s) : s[i] = "."}
        digits == SelectSeq(s, LAMBDA c : c # ".")
        places == IF dots = {} THEN 0 ELSE Len(s) - Last(dots)
    IN  Rat(1, Decimal(digits), IntPow(10, places))

NoValue == [ok |-> FALSE, v |-> Undefined]

\* The value of the text s by the standard reading of arithmetic, found
\* from the outside in: the last + or - outside parentheses splits the text
\* into its two operands; with none, the last * or / does; with none, the
\* text is a parenthesised expression, a variable of the binding or a
\* decimal literal.  ok is FALSE for any other text.
RECURSIVE StandardValue(_, _)
StandardValue(s, v) ==
    LET t == Trim(s)
        adds == TopLevel(t, {"+", "-"})
        muls == TopLevel(t, {"*", "/"})
        i == IF adds # {} THEN Last(adds) ELSE Last(muls)
        l == StandardValue(SubSeq(t, 1, i - 1), v)
        r == StandardValue(SubSeq(t, i + 1, Len(t)), v)
    IN  IF t = <<>> THEN NoValue
        ELSE IF adds # {} \/ muls # {} THEN
            IF l.ok /\ r.ok
            THEN [ok |-> TRUE,
                  v |-> CASE t[i] = "+" -> NumAdd(l.v, r.v) [] t[i] = "-" -> NumSub(l.v, r.v)
                          [] t[i] = "*" -> NumMul(l.v, r.v) [] t[i] = "/" -> NumDiv(l.v, r.v)]
            ELSE NoValue
        ELSE IF t[1] = "(" /\ t[Len(t)] = ")" THEN StandardValue(SubSeq(t, 2, Len(t) - 1), v)
        ELSE IF t \in Range(Keys(v)) THEN [ok |-> TRUE, v |-> Lookup(v, t)]
        ELSE IF IsDecimalLiteral(t) THEN [ok |-> TRUE, v |-> DecimalValue(t)]
        ELSE NoValue

\* no key of the binding is the beginning of a later key
NoKeyHidesAnother(v) ==
    \A i, j \in 1..Len(v) : i < j => ~IsProperPrefix(v[i].name, v[j].name)

IsNumericLiteral(s) ==
    LET dots == {i \in 1..Len(s) : s[i] = "."}
    IN  /\ Len(s) >= 1
        /\ \A i \in 1..Len(s) : s[i] \in Digits \cup {"."}
        /\ Cardinality(dots) <= 1
        /\ \A i \in dots : 1 < i /\ i < Len(s)

\* C13: a formula that is a numeric literal digits(.digits)? is accepted and
\* evaluates to the decimal value of its digits, leading zeros included
\* ("010" is ten).
C13_LiteralsAreDecimal ==
    (formula.t = "string" /\ Finished /\ IsNumericLiteral(Trim(formula.s)))
    => /\ valid
       /\ pc = "returned"
       /\ result = DecimalValue(Trim(formula.s))

OnlyBlanksBetween(s, i, j) == \A k \in (i + 1)..(j - 1) : s[k] \in Blanks

\* more ")" than "(" somewhere, or a "(" that is never closed
Unbalanced(s) ==
    \/ Cardinality({j \in 1..Len(s) : s[j] = "("}) # Cardinality({j \in 1..Len(s) : s[j] = ")"})
    \/ \E i \in 1..Len(s) :
          Cardinality({j \in 1..i : s[j] = ")"}) > Cardinality({j \in 1..i : s[j] = "("})

\* a * or / with no operand before it, an operator with no operand after
\* it, two operands with only blanks between them, or a literal with two
\* fractional separators
MalformedSequence(s) ==
    \/ \E j \in 1..Len(s) :
          /\ s[j] \in {"*", "/"}
          /\ \/ OnlyBlanksBetween(s, 0, j)
             \/ \E i \in 1..(j - 1) :
                    s[i] \in {"+", "-", "*", "/", "("} /\ OnlyBlanksBetween(s, i, j)
    \/ \E i \in 1..Len(s) :
          s[i] \in {"+", "-", "*", "/"} /\ OnlyBlanksBetween(s, i, Len(s) + 1)
    \/ \E i, j \in 1..Len(s) :
          /\ i + 1 < j /\ s[i] \in WordChars /\ s[j] \in WordChars
          /\ OnlyBlanksBetween(s, i, j)
    \/ \E i, j \in 2..(Len(s) - 1) :
          /\ i + 1 < j /\ s[i] = "." /\ s[j] = "."
          /\ \A k \in (i - 1)..(j + 1) : k \notin {i, j} => s[k] \in Digits

\* the text is made of variables of the binding, numeric literals, function
\* names before "(", the allowed operator symbols and blanks
OnlyAllowedTokens(s, names) ==
    ~HasDisallowedSymbol(s) /\ ~HasUnknownIdentifier(s, names)

\* C14: a formula made only of allowed tokens, but with unbalanced
\* parentheses or a malformed token sequence, is accepted by validateFormula
\* (no key of the binding being the beginning of a later key), and
\* evaluateFormula then fails in its evaluation, where the syntax error
\* surfaces: it never returns a number.
C14_MalformedFailsInEvaluation ==
    (/\ formula.t = "string" /\ Finished
     /\ NoKeyHidesAnother(variables)
     /\ OnlyAllowedTokens(formula.s, Keys(variables))
     /\ Unbalanced(formula.s) \/ MalformedSequence(formula.s))
    => /\ valid
       /\ pc = "thrown" /\ error.message = "Error evaluating formula"

AxisOrder == <<"width", "height", "depth">>

\* the axes whose formula is present, in the order width, height, depth
PresentAxes == SelectSeq(AxisOrder, LAMBDA a : Truthy(part[a]))

\* C15: evaluatePartDimensions evaluates the present axis formulas in the
\* order width, height, depth, and stops at the first that fails: the calls
\* made are the present formulas in that order, only the last call made may
\* have failed, after a failure no further call is made and the function
\* has ended with that call's error, and a record is returned only when
\* every call returned, holding each axis's result.
C15_ShortCircuit ==
    caller = "evaluatePartDimensions" =>
        /\ Len(history) <= Len(PresentAxes)
        /\ \A i \in 1..Len(history) :
              /\ history[i].f = part[PresentAxes[i]]
              /\ i < Len(history) => history[i].outcome = "returned"
              /\ history[i].outcome = "thrown" =>
                    /\ axis = "thrown" /\ pc = "idle"
                    /\ error = history[i].error
        /\ (pc # "idle" /\ Len(history) < Len(PresentAxes))
              => axis = PresentAxes[Len(history) + 1] /\ formula = part[axis]
        /\ axis = "thrown" => history[Len(history)].outcome = "thrown"
        /\ axis = "returned" =>
              /\ Len(history) = Len(PresentAxes)
              /\ \A i \in 1..Len(history) :
                    /\ history[i].outcome = "returned"
                    /\ dimensions[PresentAxes[i]] = history[i].result

\* width "W" was evaluated, height "X" failed, and depth "W - 2*T" was
\* never evaluated
C15_Witness ==
    /\ caller = "evaluatePartDimensions" /\ axis = "thrown"
    /\ IsText(part["width"], <<"W">>) /\ IsText(part["height"], <<"X">>)
    /\ IsText(part["depth"], <<"W"," ","-"," ","2","*","T">>)
    /\ Len(history) = 2 /\ error = InvalidFormula
    /\ dimensions["width"] = IntV(24) /\ dimensions["depth"] = IntV(0)

\* the formula is two adjacent signs before the variable name: --name, ++name
IsDoubleSign(s, name) ==
    /\ Len(s) = Len(name) + 2
    /\ s[1] \in {"+", "-"} /\ s[2] = s[1]
    /\ SubSeq(s, 3, Len(s)) = name

\* C16: evaluation never assigns.  For an accepted formula that is two
\* adjacent "-" or two adjacent "+" before a variable of the binding,
\* evaluateFormula returns the variable's value (each sign read as a unary
\* sign) or fails with a syntax error; it does not return the value plus or
\* minus one.
C16_NoIncrementDecrement ==
    \A i \in 1..Len(variables) :
        (/\ formula.t = "string" /\ Finished /\ valid
         /\ IsDoubleSign(Trim(formula.s), variables[i].name))
        => \/ pc = "returned" /\ result = Lookup(variables, variables[i].name)
           \/ pc = "thrown" /\ error = EvaluationError("SyntaxError")

=============================================================================
